---- MODULE Spec2Model ----
(***************************************************************************)
(* The action dispatch pipeline of movienightbot.actions: the permission   *)
(* gate BaseAction._check_proceed and the dispatch envelope                *)
(* BaseAction.__call__ (gate, policy load, action body, reply protocol,    *)
(* error recovery), for one message at a time; action discovery            *)
(* (_get_actions); the argument utility BaseAction.get_message_data; and   *)
(* the action bodies of user_vote_count and cancel_vote under concurrent   *)
(* dispatches on one event loop.                                           *)
(***************************************************************************)
EXTENDS Integers, Sequences, FiniteSets, TLC

VARIABLES
  policy,           \* the guild's ServerPolicy row in the database, or NoPolicy
  pc,               \* where __call__ is
  msg,              \* the message being dispatched
  act,              \* the action being called (self)
  gate,             \* how _check_proceed ended: "none", "allowed", "denied", "raised"
  exc,              \* the exception in flight, or NoExc
  server_settings,  \* the row loaded at line 68
  body,             \* how self.action(msg) ended
  rt,               \* the value self.action(msg) returned
  target,           \* local target (line 73)
  args,             \* local args (line 74)
  sends,            \* the send() calls made so far, in order
  logged,           \* the logger.error calls made so far
  invoked,          \* whether self.action(msg) was called
  mark,             \* how many send() calls had been made when it was called
  loads,            \* how many times the policy was read from the database
  deletion,         \* the detached deletion of the also_delete messages
  outcome,          \* how __call__ ended: "none", "returned", "escaped"
  classes,          \* _get_actions: the class definitions found, in scan order
  scanned,          \* _get_actions: how many of them the loop has handled
  actions,          \* _get_actions: the dict being built, as its set of entries
  KNOWN_ACTIONS,    \* the registry, once _get_actions has returned
  content,          \* get_message_data: msg.content, a sequence of characters
  data_parts,       \* get_message_data: the number of parts asked for
  data,             \* get_message_data: what it returned
  running,          \* the dispatch the event loop is running, 0 when none
  votes_db,         \* user_vote_count: the stored Server.num_votes_per_user
  vote_pc,          \* user_vote_count: where each dispatch stands
  vote_arg,         \* user_vote_count: the argument text of each dispatch
  num_votes_per_user, \* user_vote_count: the local of line 11
  server_row,       \* user_vote_count: the row read at line 19
  vote_rt,          \* user_vote_count: how the action ended
  vote_before,      \* history: the stored value when the dispatch started
  vote_row,         \* cancel_vote: message_id of the guild's vote record, 0 when none
  cancel_pc,        \* cancel_vote: where each dispatch stands
  vote_msg_id,      \* cancel_vote: the local of line 21
  in_txn,           \* cancel_vote: the dispatch is inside "with transaction()"
  cancel_sends,     \* cancel_vote: the sends of each dispatch's action
  cancel_rt,        \* cancel_vote: how the action ended
  found,            \* history: what the read of line 21 found
  ops,              \* history: the calls each dispatch's action has made
  last              \* history: the latest step of any dispatch

dispVars == <<policy, pc, msg, act, gate, exc, server_settings, body, rt, target, args,
              sends, logged, invoked, mark, loads, deletion, outcome>>
regVars == <<classes, scanned, actions, KNOWN_ACTIONS>>
textVars == <<content, data_parts, data>>
votesVars == <<votes_db, vote_pc, vote_arg, num_votes_per_user, server_row,
               vote_rt, vote_before>>
cancelVars == <<vote_row, cancel_pc, vote_msg_id, in_txn, cancel_sends,
                cancel_rt, found, ops, last>>
\* what a dispatch of BaseAction.__call__ leaves alone
ext == <<regVars, textVars, running, votesVars, cancelVars>>

vars == <<dispVars, regVars, textVars, running, votesVars, cancelVars>>

(***************************************************************************)
(* Bounds of the model.                                                    *)
(***************************************************************************)
NumChannels == 2
MaxTimeout == 1
MaxLen == 3

(***************************************************************************)
(* Program constants.                                                      *)
(***************************************************************************)
CannotDM == 50007

error_message == "OOPSIE WOOPSIE!! UwU We made a fucky wucky!!"
dm_notice == "You can't do this command from a DM!"
not_admin_notice == "Hey now, you're not an admin on this server!"
cant_dm_notice == "I can't DM you!"
protocol_error == "Action did not return a two-member tuple!"

(***************************************************************************)
(* Values.                                                                 *)
(***************************************************************************)
ChannelIds == 1..NumChannels
DMChannelId == 0
Roles == {"mods", "members"}
ForbiddenCodes == {CannotDM, 50013}

NoExc == [type |-> "None", code |-> 0]
Forbidden(c) == [type |-> "Forbidden", code |-> c]
OtherException == [type |-> "Exception", code |-> 0]
AttributeError == [type |-> "AttributeError", code |-> 0]
DoesNotExist == [type |-> "DoesNotExist", code |-> 0]

\* what one awaited send() on the chat client can do: complete, or raise
SendResults == {NoExc, OtherException} \cup {Forbidden(c) : c \in ForbiddenCodes}

NoPolicy == [exists |-> FALSE, channel |-> 0, admin_role |-> "", message_timeout |-> 0]
Policies == [exists : {TRUE}, channel : ChannelIds, admin_role : Roles,
             message_timeout : 0..MaxTimeout]

\* a message: guild = FALSE is msg.guild is None (a direct message)
GuildMessages == [guild : {TRUE}, channel : ChannelIds, administrator : BOOLEAN,
                  roles : SUBSET Roles]
DirectMessages == [guild : {FALSE}, channel : {DMChannelId}, administrator : {FALSE},
                   roles : {{}}]
Messages == GuildMessages \cup DirectMessages
NoMsg == [guild |-> FALSE, channel |-> DMChannelId, administrator |-> FALSE, roles |-> {}]

\* an action class: its admin and guild_only attributes
Actions == [admin : BOOLEAN, guild_only : BOOLEAN]
NoAct == [admin |-> FALSE, guild_only |-> TRUE]

\* a payload: kind is type(args); also_delete is "also_delete" in args
ActionTexts == {"hello", "bye"}
NoArgs == [kind |-> "None", val |-> "", also_delete |-> FALSE]
Payloads == [kind : {"str", "tuple", "dict", "other"}, val : ActionTexts, also_delete : {FALSE}]
              \cup [kind : {"dict"}, val : ActionTexts, also_delete : {TRUE}]
Text(s) == [kind |-> "str", val |-> s, also_delete |-> FALSE]

Targets == {"channel", "author", "other"}
NoTarget == "None"

\* a value returned by an action body: isTuple is type(rt) is tuple, len is len(rt)
NoRt == [isTuple |-> FALSE, len |-> 0, first |-> NoTarget, second |-> NoArgs]
Pairs == [isTuple : {TRUE}, len : {2}, first : Targets, second : Payloads]
NonPairs == {NoRt}
              \cup [isTuple : {TRUE}, len : (0..MaxLen) \ {2}, first : {"channel"},
                    second : {Text("hello")}]
              \cup [isTuple : {FALSE}, len : {2}, first : {"channel"},
                    second : {Text("hello")}]
ActionReturns == Pairs \cup NonPairs
ActionRaises == {OtherException} \cup {Forbidden(c) : c \in ForbiddenCodes}

\* one call of send(): destination, how the payload was passed, the payload, its result
\* shape "as-is" is send(x), "positional" is send(*x), "keyword" is send(**x)
Send(to, shape, a, r) == [to |-> to, shape |-> shape, payload |-> a, result |-> r]

\* the chat client refuses with the cannot-DM code only a send to a user: never a
\* send to a guild channel
Feasible(ss, m) ==
  \A i \in DOMAIN ss :
    ss[i].result = Forbidden(CannotDM) => (ss[i].to # "channel" \/ ~m.guild)

\* how self.action(msg) ended
NoBody == [state |-> "none", exc |-> NoExc]
Returned == [state |-> "returned", exc |-> NoExc]
Raised(e) == [state |-> "raised", exc |-> e]

(***************************************************************************)
(* ServerController().get_by_id(msg.guild.id)                              *)
(***************************************************************************)
get_by_id(m, p) ==
  IF ~m.guild THEN [exc |-> AttributeError, row |-> NoPolicy, loads |-> 0]
  ELSE IF ~p.exists THEN [exc |-> DoesNotExist, row |-> NoPolicy, loads |-> 1]
  ELSE [exc |-> NoExc, row |-> p, loads |-> 1]

(***************************************************************************)
(* BaseAction._check_proceed: r is the result of the send it awaits, if any*)
(***************************************************************************)
GateResult(res, e, s, l) == [result |-> res, exc |-> e, sends |-> s, loads |-> l]

\* variant: the admin check is made before the channel check
_check_proceed_AdminFirst(a, m, p, r) ==
  IF a.guild_only /\ ~m.guild
  THEN LET s == <<Send("author", "as-is", Text(dm_notice), r)>>
       IN IF r = NoExc THEN GateResult("denied", NoExc, s, 0)
                       ELSE GateResult("raised", r, s, 0)
  ELSE LET g == get_by_id(m, p)
       IN IF g.exc # NoExc THEN GateResult("raised", g.exc, <<>>, g.loads)
          ELSE IF ~m.administrator /\ (a.admin /\ g.row.admin_role \notin m.roles)
          THEN LET s == <<Send("channel", "as-is", Text(not_admin_notice), r)>>
               IN IF r = NoExc THEN GateResult("denied", NoExc, s, g.loads)
                               ELSE GateResult("raised", r, s, g.loads)
          ELSE IF m.channel # g.row.channel THEN GateResult("denied", NoExc, <<>>, g.loads)
          ELSE GateResult("allowed", NoExc, <<>>, g.loads)

\* variant: the direct-message notice goes to msg.channel instead of msg.author
_check_proceed_NoticeToChannel(a, m, p, r) ==
  IF a.guild_only /\ ~m.guild
  THEN LET s == <<Send("channel", "as-is", Text(dm_notice), r)>>
       IN IF r = NoExc THEN GateResult("denied", NoExc, s, 0)
                       ELSE GateResult("raised", r, s, 0)
  ELSE LET g == get_by_id(m, p)
       IN IF g.exc # NoExc THEN GateResult("raised", g.exc, <<>>, g.loads)
          ELSE IF m.channel # g.row.channel THEN GateResult("denied", NoExc, <<>>, g.loads)
          ELSE IF ~m.administrator /\ (a.admin /\ g.row.admin_role \notin m.roles)
          THEN LET s == <<Send("channel", "as-is", Text(not_admin_notice), r)>>
               IN IF r = NoExc THEN GateResult("denied", NoExc, s, g.loads)
                               ELSE GateResult("raised", r, s, g.loads)
          ELSE GateResult("allowed", NoExc, <<>>, g.loads)

\* variant: the admin test joins the flag and the role with "or", so an author needs both
_check_proceed_NeedsBoth(a, m, p, r) ==
  IF a.guild_only /\ ~m.guild
  THEN LET s == <<Send("author", "as-is", Text(dm_notice), r)>>
       IN IF r = NoExc THEN GateResult("denied", NoExc, s, 0)
                       ELSE GateResult("raised", r, s, 0)
  ELSE LET g == get_by_id(m, p)
       IN IF g.exc # NoExc THEN GateResult("raised", g.exc, <<>>, g.loads)
          ELSE IF m.channel # g.row.channel THEN GateResult("denied", NoExc, <<>>, g.loads)
          ELSE IF a.admin /\ (~m.administrator \/ g.row.admin_role \notin m.roles)
          THEN LET s == <<Send("channel", "as-is", Text(not_admin_notice), r)>>
               IN IF r = NoExc THEN GateResult("denied", NoExc, s, g.loads)
                               ELSE GateResult("raised", r, s, g.loads)
          ELSE GateResult("allowed", NoExc, <<>>, g.loads)

_check_proceed(a, m, p, r) ==
  IF a.guild_only /\ ~m.guild
  THEN LET s == <<Send("author", "as-is", Text(dm_notice), r)>>
       IN IF r = NoExc THEN GateResult("denied", NoExc, s, 0)
                       ELSE GateResult("raised", r, s, 0)
  ELSE LET g == get_by_id(m, p)
       IN IF g.exc # NoExc THEN GateResult("raised", g.exc, <<>>, g.loads)
          ELSE IF m.channel # g.row.channel THEN GateResult("denied", NoExc, <<>>, g.loads)
          ELSE IF ~m.administrator /\ (a.admin /\ g.row.admin_role \notin m.roles)
          THEN LET s == <<Send("channel", "as-is", Text(not_admin_notice), r)>>
               IN IF r = NoExc THEN GateResult("denied", NoExc, s, g.loads)
                               ELSE GateResult("raised", r, s, g.loads)
          ELSE GateResult("allowed", NoExc, <<>>, g.loads)

(***************************************************************************)
(* Values of action discovery.                                             *)
(***************************************************************************)
MaxClasses == 3

\* action_name of a class: None (the BaseAction default), empty, or a command name
NameNone == "<None>"
ActionNames == {NameNone, "", "suggest", "help"}

\* a class definition found by ast.walk: its action_name attribute and whether
\* issubclass(class_def, BaseAction)
ClassDefs == [action_name : ActionNames, is_action : BOOLEAN]

\* the sequences of at most n class definitions
RECURSIVE ClassLists(_)
ClassLists(n) ==
  IF n = 0 THEN {<<>>}
  ELSE LET shorter == ClassLists(n - 1)
       IN shorter \cup {Append(l, c) : l \in {x \in shorter : Len(x) = n - 1},
                                        c \in ClassDefs}

\* no discovery modelled: the registry variables stay as they are
RegIdle ==
  /\ classes = <<>>
  /\ scanned = 0
  /\ actions = {}
  /\ KNOWN_ACTIONS = {}

(***************************************************************************)
(* Values of the argument utility.                                         *)
(***************************************************************************)
MaxText == 6
MaxParts == 2

\* the characters of a message text: two letters, the space and the tab
Whitespace == {" ", "\t"}
Chars == {"a", "b"} \cup Whitespace

\* the texts of at most n characters
RECURSIVE Texts(_)
Texts(n) ==
  IF n = 0 THEN {<<>>}
  ELSE LET shorter == Texts(n - 1)
       IN shorter \cup {Append(t, c) : t \in {x \in shorter : Len(x) = n - 1},
                                        c \in Chars}

\* what get_message_data returns: a str, or a tuple of str
NoData == [kind |-> "none", str |-> <<>>, fields |-> <<>>]
StrData(t) == [kind |-> "str", str |-> t, fields |-> <<>>]
TupleData(f) == [kind |-> "tuple", str |-> <<>>, fields |-> f]

\* get_message_data not modelled: its variables stay as they are
TextIdle ==
  /\ content = <<>>
  /\ data_parts = 1
  /\ data = NoData

(***************************************************************************)
(* Values of the concurrent dispatches of user_vote_count.                 *)
(***************************************************************************)
NumDispatches == 2
MaxVotes == 3

Dispatches == 1..NumDispatches

\* the argument texts: not a number, or the decimal text of an integer
ArgTexts == {"", "two"} \cup {ToString(n) : n \in (0 - 1)..MaxVotes}

\* int(text): the integer, or ValueError
int(t) ==
  IF \E n \in (0 - 1)..MaxVotes : ToString(n) = t
  THEN [ok |-> TRUE, val |-> CHOOSE n \in (0 - 1)..MaxVotes : ToString(n) = t]
  ELSE [ok |-> FALSE, val |-> 0]

\* no dispatch of user_vote_count is modelled
VotesIdle ==
  /\ votes_db = 1
  /\ vote_pc = [d \in Dispatches |-> "idle"]
  /\ vote_arg = [d \in Dispatches |-> ""]
  /\ num_votes_per_user = [d \in Dispatches |-> 0]
  /\ server_row = [d \in Dispatches |-> 0]
  /\ vote_rt = [d \in Dispatches |-> "none"]
  /\ vote_before = [d \in Dispatches |-> 0]

(***************************************************************************)
(* Values of the concurrent dispatches of cancel_vote.                     *)
(***************************************************************************)
MaxVoteMsgs == 2

\* the ids of the messages that carry a vote
VoteMsgIds == 1..MaxVoteMsgs

no_vote_started == "No vote started!"

NoStep == [d |-> 0, op |-> "none"]

\* no dispatch of cancel_vote has started
CancelLocals ==
  /\ cancel_pc = [d \in Dispatches |-> "idle"]
  /\ vote_msg_id = [d \in Dispatches |-> 0]
  /\ in_txn = [d \in Dispatches |-> FALSE]
  /\ cancel_sends = [d \in Dispatches |-> <<>>]
  /\ cancel_rt = [d \in Dispatches |-> "none"]
  /\ found = [d \in Dispatches |-> "none"]
  /\ ops = [d \in Dispatches |-> {}]
  /\ last = NoStep

\* no dispatch of cancel_vote is modelled
CancelIdle ==
  /\ vote_row = 0
  /\ CancelLocals

(***************************************************************************)
(* State after construction: no dispatch in progress.                      *)
(***************************************************************************)
Init ==
  /\ policy \in {NoPolicy} \cup Policies
  /\ pc = "idle"
  /\ msg = NoMsg
  /\ act = NoAct
  /\ gate = "none"
  /\ exc = NoExc
  /\ server_settings = NoPolicy
  /\ body = NoBody
  /\ rt = NoRt
  /\ target = NoTarget
  /\ args = NoArgs
  /\ sends = <<>>
  /\ logged = <<>>
  /\ invoked = FALSE
  /\ mark = 0
  /\ loads = 0
  /\ deletion = "none"
  /\ outcome = "none"
  /\ RegIdle
  /\ TextIdle
  /\ running = 0
  /\ VotesIdle
  /\ CancelIdle

\* a message arrives for an action: __call__ is entered (line 56)
Receive ==
  /\ pc = "idle"
  /\ \E m \in Messages, a \in Actions :
       /\ msg' = m
       /\ act' = a
  /\ pc' = "gate"
  /\ UNCHANGED <<policy, gate, exc, server_settings, body, rt, target, args, sends,
                 logged, invoked, mark, loads, deletion, outcome>>
  /\ UNCHANGED ext

\* lines 61-65: the gate is run inside the first try
CheckProceed ==
  /\ pc = "gate"
  /\ \E r \in SendResults :
       LET g == _check_proceed(act, msg, policy, r)
       IN /\ Feasible(g.sends, msg)
          /\ gate' = g.result
          /\ sends' = sends \o g.sends
          /\ loads' = loads + g.loads
          /\ exc' = g.exc
          /\ CASE g.result = "denied" ->
                    /\ pc' = "done"
                    /\ outcome' = "returned"
                    /\ logged' = logged
               [] g.result = "raised" ->
                    /\ pc' = "gate_except"
                    /\ outcome' = outcome
                    /\ logged' = Append(logged, "gate exception")
               [] OTHER ->
                    /\ pc' = "load"
                    /\ outcome' = outcome
                    /\ logged' = logged
  /\ UNCHANGED <<policy, msg, act, server_settings, body, rt, target, args, invoked, mark,
                 deletion>>
  /\ UNCHANGED ext

\* lines 64-66: the gate raised; log it and send the generic message, outside any try
GateExcept ==
  /\ pc = "gate_except"
  /\ \E r \in SendResults :
       /\ Feasible(<<Send("channel", "as-is", Text(error_message), r)>>, msg)
       /\ sends' = Append(sends, Send("channel", "as-is", Text(error_message), r))
       /\ IF r = NoExc
          THEN /\ pc' = "load"
               /\ exc' = NoExc
               /\ outcome' = outcome
          ELSE /\ pc' = "done"
               /\ exc' = r
               /\ outcome' = "escaped"
  /\ UNCHANGED <<policy, msg, act, gate, server_settings, body, rt, target, args, logged,
                 invoked, mark, loads, deletion>>
  /\ UNCHANGED ext

\* lines 68-74: the policy is loaded again, outside any try
LoadSettings ==
  /\ pc = "load"
  /\ LET g == get_by_id(msg, policy)
     IN /\ loads' = loads + g.loads
        /\ exc' = g.exc
        /\ IF g.exc = NoExc
           THEN /\ server_settings' = g.row
                /\ pc' = "action"
                /\ outcome' = outcome
           ELSE /\ server_settings' = server_settings
                /\ pc' = "done"
                /\ outcome' = "escaped"
  /\ UNCHANGED <<policy, msg, act, gate, body, rt, target, args, sends, logged,
                 invoked, mark, deletion>>
  /\ UNCHANGED ext

\* which except clause of the second try takes an exception (lines 98, 113)
Handler(e) == IF e.type = "Forbidden" THEN "forbidden" ELSE "except"

\* line 77: the action body runs; it returns a value or raises
Execute ==
  /\ pc = "action"
  /\ invoked' = TRUE
  /\ mark' = Len(sends)
  /\ \/ \E v \in ActionReturns :
          /\ rt' = v
          /\ body' = Returned
          /\ pc' = "reply"
          /\ exc' = exc
     \/ \E e \in ActionRaises :
          /\ rt' = rt
          /\ body' = Raised(e)
          /\ exc' = e
          /\ pc' = Handler(e)
  /\ UNCHANGED <<policy, msg, act, gate, server_settings, target, args, sends, logged,
                 loads, deletion, outcome>>
  /\ UNCHANGED ext

\* variant: only the length is tested, so a two-element list passes
IsTwoTuple_LenOnly(v) == v.len = 2

\* line 78: type(rt) is tuple and len(rt) == 2
IsTwoTuple(v) == v.isTuple /\ v.len = 2

\* lines 81-85: the condition under which also_delete messages are cleaned up
NeedsCleanup(settings, a) ==
  settings.message_timeout > 0 /\ a.kind = "dict" /\ a.also_delete

\* util.cleanup_messages: schedules the detached deletion and returns
cleanup_messages(d) == "scheduled"

\* variant: a tuple payload is passed as one argument instead of being spread
SendByType_NoSpread(to, a, r) ==
  IF a.kind = "str" THEN <<Send(to, "as-is", a, r)>>
  ELSE IF a.kind = "tuple" THEN <<Send(to, "as-is", a, r)>>
  ELSE IF a.kind = "dict" THEN <<Send(to, "keyword", a, r)>>
  ELSE <<>>

\* lines 90-95 and 101-106: the send chosen by type(args); no branch for other types
SendByType(to, a, r) ==
  IF a.kind = "str" THEN <<Send(to, "as-is", a, r)>>
  ELSE IF a.kind = "tuple" THEN <<Send(to, "positional", a, r)>>
  ELSE IF a.kind = "dict" THEN <<Send(to, "keyword", a, r)>>
  ELSE <<>>

\* variant: the cleanup test heads the if/elif chain, so a cleaned-up payload is not sent
Deliver_Elif(settings, tgt, a, d, r) ==
  IF NeedsCleanup(settings, a)
  THEN [deletion |-> cleanup_messages(d), sends |-> <<>>]
  ELSE [deletion |-> d, sends |-> SendByType(tgt, a, r)]

\* lines 81-95: cleanup, then the reply send
Deliver(settings, tgt, a, d, r) ==
  [deletion |-> IF NeedsCleanup(settings, a) THEN cleanup_messages(d) ELSE d,
   sends |-> SendByType(tgt, a, r)]

\* lines 78-97: the reply protocol on the value the action returned
Reply ==
  /\ pc = "reply"
  /\ IF IsTwoTuple(rt)
     THEN /\ target' = rt.first
          /\ args' = rt.second
          /\ logged' = logged
          /\ \E r \in SendResults :
               LET d == Deliver(server_settings, rt.first, rt.second, deletion, r)
               IN /\ Feasible(d.sends, msg)
                  /\ deletion' = d.deletion
                  /\ sends' = sends \o d.sends
                  /\ IF d.sends # <<>> /\ r # NoExc
                     THEN /\ exc' = r
                          /\ pc' = Handler(r)
                          /\ outcome' = outcome
                     ELSE /\ exc' = exc
                          /\ pc' = "done"
                          /\ outcome' = "returned"
     ELSE /\ logged' = Append(logged, protocol_error)
          /\ pc' = "done"
          /\ outcome' = "returned"
          /\ UNCHANGED <<target, args, deletion, sends, exc>>
  /\ UNCHANGED <<policy, msg, act, gate, server_settings, body, rt, invoked, mark, loads>>
  /\ UNCHANGED ext

\* variant: a refused direct message is answered with the cannot-DM notice in every case
forbidden_clause_NoReroute(e, tgt, a, r) ==
  IF e.code = CannotDM
  THEN [sends |-> <<Send("channel", "as-is", Text(cant_dm_notice), r)>>,
        logs |-> <<>>]
  ELSE [sends |-> <<Send("channel", "as-is", Text(error_message), r)>>,
        logs |-> <<"exception">>]

\* variant: a refused direct message is re-routed whatever the target is
forbidden_clause_AlwaysReroute(e, tgt, a, r) ==
  IF e.code = CannotDM
  THEN [sends |-> SendByType("channel", a, r), logs |-> <<>>]
  ELSE [sends |-> <<Send("channel", "as-is", Text(error_message), r)>>,
        logs |-> <<"exception">>]

\* lines 99-112: what the Forbidden clause sends to msg.channel, and whether it logs
forbidden_clause(e, tgt, a, r) ==
  IF e.code = CannotDM
  THEN [sends |-> IF tgt = "author" THEN SendByType("channel", a, r)
                  ELSE <<Send("channel", "as-is", Text(cant_dm_notice), r)>>,
        logs |-> <<>>]
  ELSE [sends |-> <<Send("channel", "as-is", Text(error_message), r)>>,
        logs |-> <<"exception">>]

\* lines 98-112: except discord.Forbidden
HandleForbidden ==
  /\ pc = "forbidden"
  /\ \E r \in SendResults :
       LET h == forbidden_clause(exc, target, args, r)
       IN /\ Feasible(h.sends, msg)
          /\ sends' = sends \o h.sends
          /\ logged' = logged \o h.logs
          /\ pc' = "done"
          /\ IF h.sends # <<>> /\ r # NoExc
             THEN /\ exc' = r
                  /\ outcome' = "escaped"
             ELSE /\ exc' = NoExc
                  /\ outcome' = "returned"
  /\ UNCHANGED <<policy, msg, act, gate, server_settings, body, rt, target, args, invoked, mark,
                 loads, deletion>>
  /\ UNCHANGED ext

\* lines 113-115: except Exception
HandleException ==
  /\ pc = "except"
  /\ logged' = Append(logged, "exception")
  /\ pc' = "done"
  /\ \E r \in SendResults :
       /\ Feasible(<<Send("channel", "as-is", Text(error_message), r)>>, msg)
       /\ sends' = Append(sends, Send("channel", "as-is", Text(error_message), r))
       /\ IF r # NoExc
          THEN /\ exc' = r
               /\ outcome' = "escaped"
          ELSE /\ exc' = NoExc
               /\ outcome' = "returned"
  /\ UNCHANGED <<policy, msg, act, gate, server_settings, body, rt, target, args, invoked, mark,
                 loads, deletion>>
  /\ UNCHANGED ext

\* the detached deletion runs after the delay; a failure is logged and goes nowhere
DeleteTask ==
  /\ deletion = "scheduled"
  /\ \E ok \in BOOLEAN :
       IF ok THEN /\ deletion' = "deleted"
                  /\ logged' = logged
             ELSE /\ deletion' = "failed"
                  /\ logged' = Append(logged, "delete failed")
  /\ UNCHANGED <<policy, pc, msg, act, gate, exc, server_settings, body, rt, target, args,
                 sends, invoked, mark, loads, outcome>>
  /\ UNCHANGED ext

\* __call__ has ended; the message loop takes the next message
NextMessage ==
  /\ pc = "done"
  /\ pc' = "idle"
  /\ msg' = NoMsg
  /\ act' = NoAct
  /\ gate' = "none"
  /\ exc' = NoExc
  /\ server_settings' = NoPolicy
  /\ body' = NoBody
  /\ rt' = NoRt
  /\ target' = NoTarget
  /\ args' = NoArgs
  /\ sends' = <<>>
  /\ logged' = <<>>
  /\ invoked' = FALSE
  /\ mark' = 0
  /\ loads' = 0
  /\ deletion' = "none"
  /\ outcome' = "none"
  /\ UNCHANGED policy
  /\ UNCHANGED ext

Next ==
  \/ Receive
  \/ CheckProceed
  \/ GateExcept
  \/ LoadSettings
  \/ Execute
  \/ Reply
  \/ HandleForbidden
  \/ HandleException
  \/ DeleteTask
  \/ NextMessage

Spec == Init /\ [][Next]_vars

(***************************************************************************)
(* _get_actions: the registry is built at import time (line 190).          *)
(***************************************************************************)
\* no dispatch modelled: the dispatch variables stay as constructed
DispIdle ==
  /\ policy = NoPolicy
  /\ pc = "idle"
  /\ msg = NoMsg
  /\ act = NoAct
  /\ gate = "none"
  /\ exc = NoExc
  /\ server_settings = NoPolicy
  /\ body = NoBody
  /\ rt = NoRt
  /\ target = NoTarget
  /\ args = NoArgs
  /\ sends = <<>>
  /\ logged = <<>>
  /\ invoked = FALSE
  /\ mark = 0
  /\ loads = 0
  /\ deletion = "none"
  /\ outcome = "none"

\* class_def(): the instance of class number i; it carries the class's action_name
Instance(i, c) == [cls |-> i, action_name |-> c.action_name]

\* variant: a key already present is kept (first registered wins)
register_KeepFirst(d, i, c) ==
  IF \E e \in d : e.key = c.action_name THEN d
  ELSE d \cup {[key |-> c.action_name, inst |-> Instance(i, c)]}

\* line 186: actions[class_def.action_name] = class_def()
register(d, i, c) ==
  {e \in d : e.key # c.action_name}
    \cup {[key |-> c.action_name, inst |-> Instance(i, c)]}

InitRegistry ==
  /\ DispIdle
  /\ TextIdle
  /\ running = 0
  /\ VotesIdle
  /\ CancelIdle
  /\ classes \in ClassLists(MaxClasses)
  /\ scanned = 0
  /\ actions = {}
  /\ KNOWN_ACTIONS = {}

\* lines 182-186: one turn of the loop over the classes
ScanClass ==
  /\ scanned < Len(classes)
  /\ scanned' = scanned + 1
  /\ LET c == classes[scanned + 1]
     IN IF ~c.is_action
        THEN actions' = actions
        ELSE actions' = register(actions, scanned + 1, c)
  /\ UNCHANGED <<classes, KNOWN_ACTIONS>>
  /\ UNCHANGED <<dispVars, textVars, running, votesVars, cancelVars>>

\* lines 187, 190: return actions; KNOWN_ACTIONS = _get_actions()
ReturnActions ==
  /\ scanned = Len(classes)
  /\ KNOWN_ACTIONS # actions
  /\ KNOWN_ACTIONS' = actions
  /\ UNCHANGED <<classes, scanned, actions>>
  /\ UNCHANGED <<dispVars, textVars, running, votesVars, cancelVars>>

NextRegistry == ScanClass \/ ReturnActions

SpecRegistry == InitRegistry /\ [][NextRegistry]_vars

(***************************************************************************)
(* BaseAction.get_message_data (lines 117-142).                            *)
(***************************************************************************)
\* str.strip(): leading and trailing whitespace removed
RECURSIVE lstrip(_)
lstrip(t) ==
  IF t # <<>> /\ t[1] \in Whitespace THEN lstrip(Tail(t)) ELSE t

RECURSIVE rstrip(_)
rstrip(t) ==
  IF t # <<>> /\ t[Len(t)] \in Whitespace THEN rstrip(SubSeq(t, 1, Len(t) - 1)) ELSE t

strip(t) == rstrip(lstrip(t))

\* the position of the first character of t that is in set cs, or 0
RECURSIVE Find(_, _, _)
Find(t, cs, i) ==
  IF i > Len(t) THEN 0
  ELSE IF t[i] \in cs THEN i
  ELSE Find(t, cs, i + 1)

\* str.split(" ", maxsplit): cut at single spaces, at most maxsplit times;
\* empty pieces are kept
RECURSIVE split_sep(_, _)
split_sep(t, maxsplit) ==
  LET i == Find(t, {" "}, 1)
  IN IF maxsplit = 0 \/ i = 0 THEN <<t>>
     ELSE <<SubSeq(t, 1, i - 1)>> \o split_sep(SubSeq(t, i + 1, Len(t)), maxsplit - 1)

\* str.split(): cut at runs of whitespace; no empty pieces
RECURSIVE split_ws(_)
split_ws(t) ==
  LET u == lstrip(t)
      i == Find(u, Whitespace, 1)
  IN IF u = <<>> THEN <<>>
     ELSE IF i = 0 THEN <<u>>
     ELSE <<SubSeq(u, 1, i - 1)>> \o split_ws(SubSeq(u, i + 1, Len(u)))

\* " ".join(pieces)
RECURSIVE join(_)
join(ps) ==
  IF ps = <<>> THEN <<>>
  ELSE IF Len(ps) = 1 THEN ps[1]
  ELSE ps[1] \o <<" ">> \o join(Tail(ps))

\* variant: the pieces are returned as cut, without the whitespace clean-up
sanitize_Keep(t) == t

\* line 139: " ".join(s.split())
sanitize(t) == join(split_ws(t))

\* lines 137-142
get_message_data(c, parts) ==
  LET cut == Tail(split_sep(strip(c), parts))
      clean == [i \in DOMAIN cut |-> sanitize(cut[i])]
  IN IF parts = 1
     THEN (IF clean = <<>> THEN StrData(<<>>) ELSE StrData(clean[1]))
     ELSE TupleData(clean)

InitText ==
  /\ DispIdle
  /\ RegIdle
  /\ running = 0
  /\ VotesIdle
  /\ CancelIdle
  /\ content \in Texts(MaxText)
  /\ data_parts = 1
  /\ data = NoData

\* an action body calls self.get_message_data(msg, data_parts)
GetMessageData ==
  /\ data = NoData
  /\ \E n \in 1..MaxParts :
       /\ data_parts' = n
       /\ data' = get_message_data(content, n)
  /\ UNCHANGED content
  /\ UNCHANGED <<dispVars, regVars, running, votesVars, cancelVars>>

NextText == GetMessageData

SpecText == InitText /\ [][NextText]_vars

(***************************************************************************)
(* Concurrent dispatches of UserVoteCountAction (user_vote_count.py).      *)
(* The dispatches are tasks of one event loop: a task runs until it        *)
(* awaits, and nothing between the receipt of the message and the reply    *)
(* send awaits when the gate allows.                                       *)
(***************************************************************************)
\* ServerController.get_by_id(...).num_votes_per_user: the stored value
controller_get(db) == db

\* ServerController.update(server_row): the row's value is stored
controller_update(db, row) == row

\* variant: the new value is stored without the comparison of line 20
update_votes_NoFloor(num, row, db) ==
  [rt |-> "updated", db |-> controller_update(db, num)]

\* lines 20-30: refuse a value below the row's, else store it
update_votes(num, row, db) ==
  IF num < row
  THEN [rt |-> "below_stored", db |-> db]
  ELSE [rt |-> "updated", db |-> controller_update(db, num)]

InitVotes ==
  /\ DispIdle
  /\ RegIdle
  /\ TextIdle
  /\ CancelIdle
  /\ running = 0
  /\ votes_db \in 1..MaxVotes
  /\ vote_pc = [d \in Dispatches |-> "idle"]
  /\ vote_arg = [d \in Dispatches |-> ""]
  /\ num_votes_per_user = [d \in Dispatches |-> 0]
  /\ server_row = [d \in Dispatches |-> 0]
  /\ vote_rt = [d \in Dispatches |-> "none"]
  /\ vote_before = [d \in Dispatches |-> 0]

\* __call__ starts for a message "user_vote_count <arg>"
VoteReceive(d) ==
  /\ running = 0
  /\ vote_pc[d] = "idle"
  /\ \E t \in ArgTexts : vote_arg' = [vote_arg EXCEPT ![d] = t]
  /\ running' = d
  /\ vote_pc' = [vote_pc EXCEPT ![d] = "gate"]
  /\ vote_before' = [vote_before EXCEPT ![d] = votes_db]
  /\ UNCHANGED <<votes_db, num_votes_per_user, server_row, vote_rt>>
  /\ UNCHANGED <<dispVars, regVars, textVars, cancelVars>>

\* __call__ lines 61-66: the gate allows, or the dispatch ends
VoteGate(d) ==
  /\ running = d
  /\ vote_pc[d] = "gate"
  /\ \E ok \in BOOLEAN :
       IF ok
       THEN /\ vote_pc' = [vote_pc EXCEPT ![d] = "parse"]
            /\ running' = d
       ELSE /\ vote_pc' = [vote_pc EXCEPT ![d] = "done"]
            /\ running' = 0
  /\ UNCHANGED <<votes_db, vote_arg, num_votes_per_user, server_row, vote_rt,
                 vote_before>>
  /\ UNCHANGED <<dispVars, regVars, textVars, cancelVars>>

\* lines 11-17: int() of the argument, and the test against 1
VoteParse(d) ==
  /\ running = d
  /\ vote_pc[d] = "parse"
  /\ LET r == int(vote_arg[d])
     IN IF ~r.ok
        THEN /\ vote_rt' = [vote_rt EXCEPT ![d] = "ValueError"]
             /\ vote_pc' = [vote_pc EXCEPT ![d] = "reply"]
             /\ UNCHANGED num_votes_per_user
        ELSE IF r.val < 1
        THEN /\ vote_rt' = [vote_rt EXCEPT ![d] = "below_one"]
             /\ vote_pc' = [vote_pc EXCEPT ![d] = "reply"]
             /\ num_votes_per_user' = [num_votes_per_user EXCEPT ![d] = r.val]
        ELSE /\ vote_pc' = [vote_pc EXCEPT ![d] = "read"]
             /\ num_votes_per_user' = [num_votes_per_user EXCEPT ![d] = r.val]
             /\ UNCHANGED vote_rt
  /\ UNCHANGED <<running, votes_db, vote_arg, server_row, vote_before>>
  /\ UNCHANGED <<dispVars, regVars, textVars, cancelVars>>

\* lines 18-19: the transaction opens and the row is read
VoteRead(d) ==
  /\ running = d
  /\ vote_pc[d] = "read"
  /\ server_row' = [server_row EXCEPT ![d] = controller_get(votes_db)]
  /\ vote_pc' = [vote_pc EXCEPT ![d] = "update"]
  /\ UNCHANGED <<running, votes_db, vote_arg, num_votes_per_user, vote_rt,
                 vote_before>>
  /\ UNCHANGED <<dispVars, regVars, textVars, cancelVars>>

\* lines 20-30: the comparison, the update and the return
VoteUpdate(d) ==
  /\ running = d
  /\ vote_pc[d] = "update"
  /\ LET u == update_votes(num_votes_per_user[d], server_row[d], votes_db)
     IN /\ votes_db' = u.db
        /\ vote_rt' = [vote_rt EXCEPT ![d] = u.rt]
  /\ vote_pc' = [vote_pc EXCEPT ![d] = "reply"]
  /\ UNCHANGED <<running, vote_arg, num_votes_per_user, server_row, vote_before>>
  /\ UNCHANGED <<dispVars, regVars, textVars, cancelVars>>

\* __call__ lines 90-115: the reply (or the failure message) is awaited
VoteReply(d) ==
  /\ running = d
  /\ vote_pc[d] = "reply"
  /\ running' = 0
  /\ vote_pc' = [vote_pc EXCEPT ![d] = "done"]
  /\ UNCHANGED <<votes_db, vote_arg, num_votes_per_user, server_row, vote_rt,
                 vote_before>>
  /\ UNCHANGED <<dispVars, regVars, textVars, cancelVars>>

\* the dispatch is over; a later message starts a new one
VoteNext(d) ==
  /\ vote_pc[d] = "done"
  /\ vote_pc' = [vote_pc EXCEPT ![d] = "idle"]
  /\ vote_arg' = [vote_arg EXCEPT ![d] = ""]
  /\ num_votes_per_user' = [num_votes_per_user EXCEPT ![d] = 0]
  /\ server_row' = [server_row EXCEPT ![d] = 0]
  /\ vote_rt' = [vote_rt EXCEPT ![d] = "none"]
  /\ vote_before' = [vote_before EXCEPT ![d] = 0]
  /\ UNCHANGED <<running, votes_db>>
  /\ UNCHANGED <<dispVars, regVars, textVars, cancelVars>>

NextVotes ==
  \E d \in Dispatches :
    \/ VoteReceive(d)
    \/ VoteGate(d)
    \/ VoteParse(d)
    \/ VoteRead(d)
    \/ VoteUpdate(d)
    \/ VoteReply(d)
    \/ VoteNext(d)

SpecVotes == InitVotes /\ [][NextVotes]_vars

(***************************************************************************)
(* Concurrent dispatches of CancelVoteAction (cancel_vote.py).             *)
(* A task of the event loop runs until it awaits; it resumes when the loop *)
(* is free.                                                                *)
(***************************************************************************)
\* variant: the read of line 21 would suspend the task as well
Awaits_AtGet == {"get", "novote", "fetch", "clear", "edit"}

\* the steps that end in an await: lines 23, 28, 29 and 30
Awaits == {"novote", "fetch", "clear", "edit"}

\* the task of dispatch d may take its next step
CanRun(d) == running = d \/ running = 0

\* who holds the loop after dispatch d has taken the step at position pos
Release(d, pos) == IF pos \in Awaits THEN 0 ELSE d

\* an awaited Discord call completes or raises
CallResults == {"ok", "raise"}

\* VoteController.cancel_vote(server_id): the guild's vote record is removed
cancel_vote(row) == 0

Step(d, op) == [d |-> d, op |-> op]

InitCancel ==
  /\ DispIdle
  /\ RegIdle
  /\ TextIdle
  /\ VotesIdle
  /\ running = 0
  /\ vote_row \in {0} \cup VoteMsgIds
  /\ CancelLocals

\* another command of the guild starts a vote; its record names the vote message
StartVote ==
  /\ running = 0
  /\ vote_row = 0
  /\ \E m \in VoteMsgIds : vote_row' = m
  /\ last' = Step(0, "start_vote")
  /\ UNCHANGED <<running, cancel_pc, vote_msg_id, in_txn, cancel_sends,
                 cancel_rt, found, ops>>
  /\ UNCHANGED <<dispVars, regVars, textVars, votesVars>>

\* __call__ lines 61-77 and action line 18: the gate allows, the action is called
CancelReceive(d) ==
  /\ running = 0
  /\ cancel_pc[d] = "idle"
  /\ cancel_pc' = [cancel_pc EXCEPT ![d] = "get"]
  /\ running' = Release(d, "idle")
  /\ last' = Step(d, "call")
  /\ UNCHANGED <<vote_row, vote_msg_id, in_txn, cancel_sends, cancel_rt,
                 found, ops>>
  /\ UNCHANGED <<dispVars, regVars, textVars, votesVars>>

\* lines 19-22: the transaction opens and the vote record is read
CancelGet(d) ==
  /\ CanRun(d)
  /\ cancel_pc[d] = "get"
  /\ in_txn' = [in_txn EXCEPT ![d] = TRUE]
  /\ IF vote_row = 0
     THEN /\ found' = [found EXCEPT ![d] = "no"]
          /\ cancel_pc' = [cancel_pc EXCEPT ![d] = "novote"]
          /\ UNCHANGED vote_msg_id
     ELSE /\ found' = [found EXCEPT ![d] = "yes"]
          /\ vote_msg_id' = [vote_msg_id EXCEPT ![d] = vote_row]
          /\ cancel_pc' = [cancel_pc EXCEPT ![d] = "cancel"]
  /\ ops' = [ops EXCEPT ![d] = @ \cup {"get_by_id"}]
  /\ running' = Release(d, "get")
  /\ last' = Step(d, "get_by_id")
  /\ UNCHANGED <<vote_row, cancel_sends, cancel_rt>>
  /\ UNCHANGED <<dispVars, regVars, textVars, votesVars>>

\* lines 23-24: the notice is sent and the action returns
CancelNoVote(d) ==
  /\ CanRun(d)
  /\ cancel_pc[d] = "novote"
  /\ cancel_sends' = [cancel_sends EXCEPT
                        ![d] = Append(@, [to |-> "channel", content |-> no_vote_started])]
  /\ \E res \in CallResults :
       cancel_rt' = [cancel_rt EXCEPT ![d] = IF res = "ok" THEN "None" ELSE "raised"]
  /\ in_txn' = [in_txn EXCEPT ![d] = FALSE]
  /\ cancel_pc' = [cancel_pc EXCEPT ![d] = "done"]
  /\ ops' = [ops EXCEPT ![d] = @ \cup {"send"}]
  /\ running' = Release(d, "novote")
  /\ last' = Step(d, "send")
  /\ UNCHANGED <<vote_row, vote_msg_id, found>>
  /\ UNCHANGED <<dispVars, regVars, textVars, votesVars>>

\* line 25: the vote is cancelled and the transaction closes
CancelVote(d) ==
  /\ CanRun(d)
  /\ cancel_pc[d] = "cancel"
  /\ vote_row' = cancel_vote(vote_row)
  /\ in_txn' = [in_txn EXCEPT ![d] = FALSE]
  /\ cancel_pc' = [cancel_pc EXCEPT ![d] = "fetch"]
  /\ ops' = [ops EXCEPT ![d] = @ \cup {"cancel_vote"}]
  /\ running' = Release(d, "cancel")
  /\ last' = Step(d, "cancel_vote")
  /\ UNCHANGED <<vote_msg_id, cancel_sends, cancel_rt, found>>
  /\ UNCHANGED <<dispVars, regVars, textVars, votesVars>>

\* lines 28, 29, 30: one awaited call on the vote message; a raise ends the action
MessageCall(d, pos, op, then) ==
  /\ CanRun(d)
  /\ cancel_pc[d] = pos
  /\ \E res \in CallResults :
       IF res = "ok"
       THEN /\ cancel_pc' = [cancel_pc EXCEPT ![d] = then]
            /\ cancel_rt' = [cancel_rt EXCEPT ![d] = IF then = "done" THEN "None" ELSE @]
       ELSE /\ cancel_pc' = [cancel_pc EXCEPT ![d] = "done"]
            /\ cancel_rt' = [cancel_rt EXCEPT ![d] = "raised"]
  /\ ops' = [ops EXCEPT ![d] = @ \cup {op}]
  /\ running' = Release(d, pos)
  /\ last' = Step(d, op)
  /\ UNCHANGED <<vote_row, vote_msg_id, in_txn, cancel_sends, found>>
  /\ UNCHANGED <<dispVars, regVars, textVars, votesVars>>

\* line 28
CancelFetch(d) == MessageCall(d, "fetch", "fetch_message", "clear")

\* line 29
CancelClear(d) == MessageCall(d, "clear", "clear_reactions", "edit")

\* line 30
CancelEdit(d) == MessageCall(d, "edit", "edit", "done")

\* the dispatch is over; a later message starts a new one
CancelNext(d) ==
  /\ cancel_pc[d] = "done"
  /\ running # d
  /\ cancel_pc' = [cancel_pc EXCEPT ![d] = "idle"]
  /\ vote_msg_id' = [vote_msg_id EXCEPT ![d] = 0]
  /\ cancel_sends' = [cancel_sends EXCEPT ![d] = <<>>]
  /\ cancel_rt' = [cancel_rt EXCEPT ![d] = "none"]
  /\ found' = [found EXCEPT ![d] = "none"]
  /\ ops' = [ops EXCEPT ![d] = {}]
  /\ UNCHANGED <<running, vote_row, in_txn, last>>
  /\ UNCHANGED <<dispVars, regVars, textVars, votesVars>>

NextCancel ==
  \/ StartVote
  \/ \E d \in Dispatches :
       \/ CancelReceive(d)
       \/ CancelGet(d)
       \/ CancelNoVote(d)
       \/ CancelVote(d)
       \/ CancelFetch(d)
       \/ CancelClear(d)
       \/ CancelEdit(d)
       \/ CancelNext(d)

SpecCancel == InitCancel /\ [][NextCancel]_vars

(***************************************************************************)
(* Properties of one dispatch.                                             *)
(***************************************************************************)
\* the send() calls made so far on destination to
SendsTo(to) == {i \in DOMAIN sends : sends[i].to = to}
\* the send() calls made so far on destination to that carry payload a
SendsOf(to, a) == {i \in DOMAIN sends : sends[i].to = to /\ sends[i].payload = a}
\* the shape in which the spec has a payload of each type sent
ExpectedShape(a) ==
  CASE a.kind = "str" -> "as-is"
    [] a.kind = "tuple" -> "positional"
    [] a.kind = "dict" -> "keyword"
    [] OTHER -> "none"
\* the send() calls that carry the action's payload a to destination to in the right shape
Deliveries(to, a) == {i \in SendsOf(to, a) : sends[i].shape = ExpectedShape(a)}
\* the send() calls made since self.action(msg) was called, in order
After == SubSeq(sends, mark + 1, Len(sends))
AfterTo(to) == {i \in DOMAIN After : After[i].to = to}
AfterOf(to, a) == {i \in AfterTo(to) : After[i].payload = a}
AfterDeliveries(to, a) == {i \in AfterOf(to, a) : After[i].shape = ExpectedShape(a)}
Logged(x) == \E i \in DOMAIN logged : logged[i] = x
Sendable(a) == a.kind \in {"str", "tuple", "dict"}

\* the dispatch is past the gate stage (lines 61-66)
PastGate == pc \notin {"idle", "gate"}

\* C1: no exception escapes BaseAction.__call__, whatever stage fails: the
\* call always returns normally.
C1_NoExceptionEscapes == outcome # "escaped"

\* C2: when the permission gate raises, the dispatch sends one generic error
\* message to the channel and denies: the action body is never invoked.
C2_GateExceptionDenies ==
  gate = "raised" =>
    /\ ~invoked
    /\ pc = "done" => Cardinality(SendsOf("channel", Text(error_message))) = 1

\* the message is a guild message outside the guild's configured channel
WrongChannel == msg.guild /\ policy.exists /\ msg.channel # policy.channel

\* C3: for a message in a channel other than the guild's configured channel,
\* whatever the action's admin requirement and the author's privileges, the
\* gate denies, the action body is not invoked and no message is sent.
C3_WrongChannelSilent ==
  (WrongChannel /\ PastGate) =>
    /\ gate = "denied"
    /\ pc = "done" /\ outcome = "returned"
    /\ ~invoked
    /\ sends = <<>>

\* C3 witness: a non-admin author called an admin-only action in the wrong
\* channel and the dispatch has ended
C3_Witness ==
  /\ WrongChannel /\ pc = "done"
  /\ act.admin /\ ~msg.administrator /\ policy.admin_role \notin msg.roles

\* an admin-only action called in the configured channel by a non-admin author
NonAdminCall ==
  /\ msg.guild /\ policy.exists /\ msg.channel = policy.channel
  /\ act.admin /\ ~msg.administrator /\ policy.admin_role \notin msg.roles

\* C4: for an admin-only action called in the configured channel by an author
\* with neither the administrator flag nor the admin role, the gate does not
\* allow, the channel is sent exactly one refusal and the action body is not
\* invoked.
C4_NonAdminRefused ==
  (NonAdminCall /\ PastGate) =>
    /\ gate # "allowed"
    /\ Cardinality(SendsOf("channel", Text(not_admin_notice))) = 1
    /\ ~invoked

\* a guild-only action called from a direct message
GuildOnlyInDM == ~msg.guild /\ act.guild_only

\* C5: for a guild-only action called from a direct message, the gate does not
\* allow, exactly one notice is sent and it goes to the author, not to the
\* channel, no policy is loaded and the action body is not reached.
C5_GuildOnlyInDM ==
  (GuildOnlyInDM /\ PastGate) =>
    /\ gate # "allowed"
    /\ Cardinality(SendsOf("author", Text(dm_notice))) = 1
    /\ SendsOf("channel", Text(dm_notice)) = {}
    /\ loads = 0
    /\ ~invoked /\ pc \notin {"action", "reply", "forbidden", "except"}

\* C5 witness: the dispatch of such a message has ended with the notice delivered
C5_Witness ==
  /\ GuildOnlyInDM /\ pc = "done" /\ gate = "denied"
  /\ \E i \in SendsOf("author", Text(dm_notice)) : sends[i].result = NoExc

\* the gate allowed and the action body raised something other than the
\* cannot-DM refusal
BodyFault ==
  /\ gate = "allowed" /\ body.state = "raised"
  /\ body.exc # Forbidden(CannotDM)

\* C6: when the gate allows and the action body raises anything but the
\* cannot-DM refusal, the dispatch sends exactly one generic failure message to
\* the channel, sends nothing else, and propagates no exception.
C6_BodyFaultOneMessage ==
  (BodyFault /\ pc = "done") =>
    /\ Len(sends) = 1
    /\ sends[1].to = "channel" /\ sends[1].payload = Text(error_message)
    /\ outcome = "returned"

\* the action returned (author, payload) and the send to the author was refused
\* with the cannot-DM code
DMRefused ==
  /\ body.state = "returned" /\ IsTwoTuple(rt)
  /\ rt.first = "author"
  /\ \E i \in AfterTo("author") : After[i].result = Forbidden(CannotDM)

\* C7: when an action returns (author, payload) and the send to the author is
\* refused with code 50007, the dispatch then makes exactly one send to the
\* originating channel, of the same payload in the same shape, and no send of
\* the generic failure message (sends counted from the call of the action on).
C7_RerouteToChannel ==
  (DMRefused /\ pc = "done") =>
    /\ Cardinality(AfterTo("channel")) = 1
    /\ Cardinality(AfterDeliveries("channel", rt.second)) = 1
    /\ AfterOf("channel", Text(error_message)) = {}
    /\ Len(After) = 2

\* C7 witness: a keyword payload was re-routed to the channel
C7_Witness ==
  /\ DMRefused /\ pc = "done" /\ rt.second.kind = "dict"
  /\ AfterDeliveries("channel", rt.second) # {}

\* the gate allowed and the action returned (target, payload) with a payload
\* that is a string, a tuple or a mapping
PairReturned ==
  /\ gate = "allowed" /\ body.state = "returned" /\ IsTwoTuple(rt)
  /\ Sendable(rt.second)

\* C8 as claimed: exactly one send on the target carrying the payload in its
\* shape, and no send on any other destination.
C8_OneSendOnTargetOnly ==
  (PairReturned /\ pc = "done") =>
    /\ Cardinality(Deliveries(rt.first, rt.second)) = 1
    /\ \A i \in DOMAIN sends : sends[i].to = rt.first

\* C8 as amended: exactly one send on the target carrying the payload in its
\* shape; when that send does not raise the dispatch makes no other send, and
\* when it raises the only other send is one recovery message to the channel.
C8_OneSendOnTarget ==
  (PairReturned /\ pc = "done") =>
    /\ Cardinality(Deliveries(rt.first, rt.second)) = 1
    /\ Cardinality(SendsOf(rt.first, rt.second)) = 1
    /\ sends[1].to = rt.first /\ sends[1].payload = rt.second
    /\ sends[1].result = NoExc => Len(sends) = 1
    /\ Len(sends) <= 2
    /\ \A i \in DOMAIN sends : i > 1 => sends[i].to = "channel"

\* C8 witness: a positional payload was delivered to a destination that is
\* neither the channel nor the author
C8_Witness ==
  /\ PairReturned /\ pc = "done"
  /\ rt.first = "other" /\ rt.second.kind = "tuple"
  /\ sends[1].result = NoExc

\* the timeout is positive, the returned payload carries also_delete, and the
\* deletion failed
DeletionFailed ==
  /\ body.state = "returned" /\ IsTwoTuple(rt)
  /\ server_settings.message_timeout > 0
  /\ rt.second.kind = "dict" /\ rt.second.also_delete
  /\ deletion = "failed"

NotAPair == body.state = "returned" /\ ~(rt.isTuple /\ rt.len = 2)

\* C10: when the action's return value is not a two-element tuple (returning
\* nothing included), the dispatch logs a protocol error, sends no message
\* (sends counted from the call of the action on) and returns.
C10_ProtocolError ==
  (NotAPair /\ pc = "done") =>
    /\ Logged(protocol_error)
    /\ After = <<>>
    /\ outcome = "returned"

\* C10 witness: the action returned a two-element list and the dispatch ended
C10_Witness ==
  /\ NotAPair /\ pc = "done"
  /\ ~rt.isTuple /\ rt.len = 2

\* a guild message in the guild's configured channel
ConfiguredChannel == msg.guild /\ policy.exists /\ msg.channel = policy.channel

\* the reference rule for the admin requirement
AdminRule == ~act.admin \/ msg.administrator \/ policy.admin_role \in msg.roles

\* C15: for a guild message in the configured channel the gate allows if and
\* only if the action does not require admin, or the author has the
\* administrator flag, or the author holds the policy's admin role; a gate that
\* allowed has sent no message.
C15_GateMatchesRule ==
  (ConfiguredChannel /\ PastGate) =>
    /\ gate = "allowed" <=> AdminRule
    /\ gate = "allowed" => (IF invoked THEN mark = 0 ELSE sends = <<>>)

\* C15 witness: an author without the administrator flag but with the admin
\* role was allowed to call an admin-only action
C15_Witness ==
  /\ ConfiguredChannel /\ pc = "action" /\ gate = "allowed"
  /\ act.admin /\ ~msg.administrator /\ policy.admin_role \in msg.roles

\* the send() calls that carry a payload returned by an action
ReplySends == {i \in DOMAIN sends : sends[i].payload \in Payloads}

\* C16: every dispatch ends in one of the terminal outcomes Denied, Delivered,
\* Failed, ProtocolError (so __call__ returns), reached in the order gate,
\* execute, reply; no dispatch both sends the generic failure message and
\* delivers a reply payload; no reply payload is sent unless the gate allowed.
C16_OneTerminalOutcome ==
  /\ pc = "done" => outcome = "returned"
  /\ invoked => gate # "none"
  /\ ReplySends # {} => invoked
  /\ ~(/\ SendsOf("channel", Text(error_message)) # {}
       /\ \E i \in ReplySends : sends[i].result = NoExc)
  /\ ReplySends # {} => gate = "allowed"

\* the cannot-DM refusal was raised by the action body, or by the reply send to
\* a target that is not the author
CannotDMElsewhere ==
  \/ body = Raised(Forbidden(CannotDM))
  \/ /\ body.state = "returned" /\ IsTwoTuple(rt) /\ rt.first # "author"
     /\ Len(After) >= 1 /\ After[1].result = Forbidden(CannotDM)

\* C17: when the cannot-DM refusal is raised during execution or reply and the
\* target is not the author (or no target was returned yet), the dispatch sends
\* exactly one cannot-DM notice to the channel, no generic failure message and
\* does not send the payload again (sends counted from the call of the action on).
C17_CannotDMNotice ==
  (CannotDMElsewhere /\ pc = "done") =>
    /\ Cardinality(AfterOf("channel", Text(cant_dm_notice))) = 1
    /\ AfterOf("channel", Text(error_message)) = {}
    /\ Len(After) = (IF body.state = "raised" THEN 1 ELSE 2)
    /\ After[Len(After)].payload = Text(cant_dm_notice)

\* C17 witness: the action body raised the refusal before returning a target,
\* and the dispatch has ended
C17_Witness ==
  /\ body = Raised(Forbidden(CannotDM)) /\ pc = "done"
  /\ target = NoTarget /\ Len(After) = 1

\* C18: an action with guild_only false called from a direct message is not
\* denied: the action body is executed and no failure message is sent.
C18_DMActionRuns ==
  (~msg.guild /\ ~act.guild_only /\ pc = "done") =>
    /\ gate = "allowed"
    /\ invoked
    /\ SendsOf("channel", Text(error_message)) = {}
    /\ outcome = "returned"

(***************************************************************************)
(* Properties of action discovery.                                         *)
(***************************************************************************)
\* _get_actions has returned and the registry is set
Discovered == scanned = Len(classes) /\ KNOWN_ACTIONS = actions

\* the action classes found, by their number in scan order
ActionClasses == {i \in DOMAIN classes : classes[i].is_action}

\* C11: discovery skips every implementation without a non-empty name: after
\* discovery no entry of the registry has a missing or empty key.
C11_NoUnnamedEntry ==
  Discovered => \A e \in KNOWN_ACTIONS : e.key \notin {NameNone, ""}

AfterToken(c) ==
  LET t == strip(c)
      i == Find(t, {" "}, 1)
  IN IF i = 0 THEN <<>> ELSE SubSeq(t, i + 1, Len(t))

\* t with leading and trailing whitespace removed and every inner whitespace
\* run replaced by one space, character by character
RECURSIVE Collapse(_)
Collapse(t) ==
  IF t = <<>> THEN <<>>
  ELSE IF t[1] \in Whitespace THEN Collapse(Tail(t))
  ELSE IF Len(t) >= 2 /\ t[2] \in Whitespace /\ Collapse(Tail(t)) # <<>>
       THEN <<t[1], " ">> \o Collapse(Tail(t))
       ELSE <<t[1]>> \o Collapse(Tail(t))

\* t holds no whitespace but single inner spaces
Clean(t) ==
  /\ \A i \in DOMAIN t : t[i] # "\t"
  /\ \A i \in DOMAIN t : t[i] = " " => (i > 1 /\ i < Len(t) /\ t[i + 1] # " ")

Fields(c) == split_ws(AfterToken(c))

\* C14: with N > 1 expected parts the utility returns the first N-1
\* whitespace-delimited fields of the text after the command token followed by
\* the rest of the line as the last field, also when fields are separated by
\* more than one space; no returned field is empty when the text holds at least
\* N fields.
C14_ManyParts ==
  (data # NoData /\ data_parts > 1 /\ Len(Fields(content)) >= data_parts) =>
    /\ data.kind = "tuple"
    /\ Len(data.fields) = data_parts
    /\ \A i \in 1..(data_parts - 1) : data.fields[i] = Fields(content)[i]
    /\ data.fields[data_parts]
         = join(SubSeq(Fields(content), data_parts, Len(Fields(content))))
    /\ \A i \in DOMAIN data.fields : data.fields[i] # <<>>

(***************************************************************************)
(* Properties of concurrent user_vote_count dispatches.                    *)
(***************************************************************************)
\* the request of dispatch d is refused: not an integer, below 1, or below
\* the value stored when the dispatch started
Refused(d) ==
  LET r == int(vote_arg[d])
  IN \/ ~r.ok
     \/ r.val < 1
     \/ r.val < vote_before[d]

\* the action of dispatch d has ended and its reply is not yet sent
BodyDone(d) == vote_pc[d] = "reply"

VoteCalls == {"cancel_vote", "fetch_message", "clear_reactions", "edit"}

\* C20: the read of the vote record and its cancellation happen inside one
\* transaction with no suspension between them, so no other dispatch's step
\* occurs between the two; when no vote record exists the action sends
\* "No vote started!" to the channel, never calls the cancellation and never
\* edits or clears reactions on any message.
C20_CancelAtomic ==
  \A d \in Dispatches :
    /\ cancel_pc[d] = "cancel" =>
         /\ last = Step(d, "get_by_id")
         /\ running = d
         /\ in_txn[d]
         /\ vote_row = vote_msg_id[d] /\ vote_row # 0
    /\ "cancel_vote" \in ops[d] => found[d] = "yes"
    /\ found[d] = "no" =>
         /\ ops[d] \cap VoteCalls = {}
         /\ cancel_pc[d] \in {"novote", "done"}
         /\ cancel_pc[d] = "done" =>
              cancel_sends[d] = <<[to |-> "channel", content |-> no_vote_started]>>
    /\ found[d] # "no" => cancel_sends[d] = <<>>

\* C20 witness: one dispatch cancelled the vote and is suspended at an await
\* while a second one found no record and sent the notice
C20_Witness ==
  \E d, e \in Dispatches :
    /\ "cancel_vote" \in ops[d] /\ cancel_pc[d] \in {"clear", "edit"}
    /\ found[e] = "no" /\ cancel_pc[e] = "done"
    /\ cancel_sends[e] # <<>>
====
